---- MODULE Spec2Model ----
(***************************************************************************)
(* License-key lifecycle and write-with-retry of karloscodes/matcha.       *)
(*                                                                         *)
(*   Spec       the lifecycle of license keys as the handlers drive it:    *)
(*              issuance, verification (with and without increment),       *)
(*              the model methods IncrementUsage / Revoke / Reactivate,    *)
(*              and the passage of time.  No admin edit of a row.          *)
(*   SpecAdmin  Spec plus the admin edit of a row (LicenseKeysHandler.     *)
(*              Update), which rewrites ExpiresAt and MaxActivations.      *)
(*   SpecPure   the pure predicates applied to every row value.            *)
(*   SpecWrite  database.PerformWrite driving one write operation.         *)
(*   SpecSettings       EmailSettings.Save / Activate called one after     *)
(*              the other, each store statement able to fail.              *)
(*   SpecSettingsAdmin  SpecSettings plus the settings handlers' create    *)
(*              and activate paths.                                        *)
(*   SpecSettingsConc   the same calls made by concurrent requests, their  *)
(*              store statements interleaved.                              *)
(*   SpecProv   WebhookHandler.processSuccessfulPayment called one after   *)
(*              the other on the products, customers and license_keys      *)
(*              tables, each store statement and the delivery able to fail.*)
(*   SpecProvConc       two deliveries of processSuccessfulPayment whose   *)
(*              store statements interleave.                               *)
(*   SpecVerify APIHandler.VerifyLicense from its form values on, against  *)
(*              tables with two products and tokens of either.             *)
(*   SpecVerifyConc     concurrent verification requests: the read of the  *)
(*              row and the save of IncrementUsage interleave.             *)
(*   SpecStore  provisioning and the admin handlers that create, re-point  *)
(*              and delete rows, against the store's unique index and      *)
(*              foreign keys.                                              *)
(***************************************************************************)
EXTENDS Integers, Sequences, FiniteSets, TLC

VARIABLES
    now,        \* time.Now(), in abstract ticks
    keys,       \* the license_keys table: id -> row
    succ,       \* history: successful IncrementUsage calls per row since issue
    last,       \* the last call made and what it returned
    pwPc,       \* PerformWrite: "call" (about to run operation) | "sleep" | "done"
    attempt,    \* PerformWrite: the loop variable
    outcomes,   \* PerformWrite: what operation(db) returned, per call so far
    delay,      \* PerformWrite: the delay computed for the pending sleep (microseconds)
    slept,      \* PerformWrite: number of time.Sleep calls made
    pwRet,      \* PerformWrite: the returned error (NoError for nil)
    settings,   \* the email_settings table: id -> is_active
    slast,      \* the last EmailSettings call, the step that failed, its result
    procs,      \* concurrent requests: pid -> call in progress
    products,   \* the products table: id -> defaults
    customers,  \* the customers table: id -> row
    plast,      \* the last provisioning call: its inputs and what it did
    wlog        \* the write statements the last provisioning or admin call
                \* issued: statement, times attempted, error of the last attempt

lifecycleVars == <<now, keys, succ, last>>
writeVars == <<pwPc, attempt, outcomes, delay, slept, pwRet>>
settingsVars == <<settings, slast, procs>>
provVars == <<products, customers, plast, wlog>>
vars == <<now, keys, succ, last, pwPc, attempt, outcomes, delay, slept, pwRet,
          settings, slast, procs, products, customers, plast, wlog>>

(***************************************************************************)
(* Bounds of the model.                                                    *)
(***************************************************************************)
MaxTime == 3
MaxLimit == 2
MaxDays == 2

\* The nil error; any other error is its message, a sequence of words.
NoError == <<>>

\* A nil *time.Time (ExpiresAt, LastValidatedAt).
NULL == -1

\* Every handler loads one row by primary key and saves that row only, so the
\* lifecycle is followed for one row of the table.
KeyIDs == {1}
\* The clock starts at 1, so that a row issued with a negative number of
\* expiration days has an ExpiresAt that is still a time, not NULL.
Times == 1..MaxTime
\* default_expiration_days as strconv.Atoi accepts it from the product form.
Days == (0 - 1)..MaxDays
Statuses == {"active", "expired", "revoked"}
\* max_activations as strconv.Atoi accepts it from the edit form: negative,
\* zero or positive.
Limits == (0 - 1)..MaxLimit

(***************************************************************************)
(* models.LicenseKey: the pure predicates.                                 *)
(***************************************************************************)
IsExpired(lk, t) == lk.ExpiresAt # NULL /\ lk.ExpiresAt < t

\* Mutant: the expiry date is not consulted; the stored status decides.
IsValidForUseIgnoresDate(lk, t) ==
    /\ lk.Status = "active"
    /\ lk.CurrentActivations < lk.MaxActivations

\* Mutant: the activation comparison admits a use at the ceiling.
IsValidForUseAtCeiling(lk, t) ==
    /\ lk.Status = "active"
    /\ ~IsExpired(lk, t)
    /\ lk.CurrentActivations <= lk.MaxActivations

IsValidForUse(lk, t) ==
    /\ lk.Status = "active"
    /\ ~IsExpired(lk, t)
    /\ lk.CurrentActivations < lk.MaxActivations

IsActive(lk) == lk.Status = "active"

IsRevoked(lk) == lk.Status = "revoked"

(***************************************************************************)
(* models.LicenseKey: the mutating methods.  Each yields the receiver as   *)
(* the method leaves it, whether db.Save was called, and the error the     *)
(* method itself raises ("nil" when it goes on to return db.Save's).       *)
(***************************************************************************)
\* Mutant: the ceiling test is off by one, so the row is flipped to expired
\* one activation late.
IncrementUsageLateFlip(lk, t) ==
    IF ~IsValidForUse(lk, t)
    THEN [lk |-> lk, save |-> FALSE, err |-> "invalid"]
    ELSE LET n == lk.CurrentActivations + 1
         IN  [lk |-> [lk EXCEPT !.CurrentActivations = n,
                                !.Status = IF lk.MaxActivations > 0 /\ n > lk.MaxActivations
                                           THEN "expired" ELSE @,
                                !.LastValidatedAt = t],
              save |-> TRUE, err |-> "nil"]

\* Mutant: the validation timestamp is taken before the validity test and
\* saved even when the call is refused.
IncrementUsageStampsFirst(lk, t) ==
    IF ~IsValidForUse(lk, t)
    THEN [lk |-> [lk EXCEPT !.LastValidatedAt = t], save |-> TRUE, err |-> "invalid"]
    ELSE LET n == lk.CurrentActivations + 1
         IN  [lk |-> [lk EXCEPT !.CurrentActivations = n,
                                !.Status = IF lk.MaxActivations > 0 /\ n >= lk.MaxActivations
                                           THEN "expired" ELSE @,
                                !.LastValidatedAt = t],
              save |-> TRUE, err |-> "nil"]

IncrementUsage(lk, t) ==
    IF ~IsValidForUse(lk, t)
    THEN [lk |-> lk, save |-> FALSE, err |-> "invalid"]
    ELSE LET n == lk.CurrentActivations + 1
         IN  [lk |-> [lk EXCEPT !.CurrentActivations = n,
                                !.Status = IF lk.MaxActivations > 0 /\ n >= lk.MaxActivations
                                           THEN "expired" ELSE @,
                                !.LastValidatedAt = t],
              save |-> TRUE, err |-> "nil"]

\* Mutant: a row that is already expired is refused instead of revoked.
RevokeRefusesExpired(lk, t) ==
    IF lk.Status = "expired"
    THEN [lk |-> lk, save |-> FALSE, err |-> "invalid"]
    ELSE [lk |-> [lk EXCEPT !.Status = "revoked"], save |-> TRUE, err |-> "nil"]

Revoke(lk, t) ==
    [lk |-> [lk EXCEPT !.Status = "revoked"], save |-> TRUE, err |-> "nil"]

\* Mutant: the guard reads the stored status instead of the expiry date.
ReactivateChecksStatus(lk, t) ==
    IF lk.Status # "expired"
    THEN [lk |-> [lk EXCEPT !.Status = "active"], save |-> TRUE, err |-> "nil"]
    ELSE [lk |-> lk, save |-> FALSE, err |-> "invalid"]

\* Mutant: no guard at all.
ReactivateUnguarded(lk, t) ==
    [lk |-> [lk EXCEPT !.Status = "active"], save |-> TRUE, err |-> "nil"]

\* Mutant: reactivation starts the activation count afresh.
ReactivateResetsCounter(lk, t) ==
    IF ~IsExpired(lk, t)
    THEN [lk |-> [lk EXCEPT !.Status = "active", !.CurrentActivations = 0],
          save |-> TRUE, err |-> "nil"]
    ELSE [lk |-> lk, save |-> FALSE, err |-> "invalid"]

\* Mutant: a refused reactivation brings the stored status in line with the
\* date and saves it.
ReactivateMarksExpired(lk, t) ==
    IF ~IsExpired(lk, t)
    THEN [lk |-> [lk EXCEPT !.Status = "active"], save |-> TRUE, err |-> "nil"]
    ELSE [lk |-> [lk EXCEPT !.Status = "expired"], save |-> TRUE, err |-> "invalid"]

Reactivate(lk, t) ==
    IF ~IsExpired(lk, t)
    THEN [lk |-> [lk EXCEPT !.Status = "active"], save |-> TRUE, err |-> "nil"]
    ELSE [lk |-> lk, save |-> FALSE, err |-> "invalid"]

\* Product.GenerateLicenseKeyFor: the row it builds and hands to db.Create.
\* The MaxActivations column is tagged `default:1`: on insert gorm writes the
\* column default in place of a zero value, so a product whose default usage
\* limit is 0 issues rows with MaxActivations = 1.
GenerateLicenseKeyFor(days, limit, t) ==
    [Status |-> "active", ExpiresAt |-> t + days,
     MaxActivations |-> IF limit = 0 THEN 1 ELSE limit,
     CurrentActivations |-> 0, LastValidatedAt |-> NULL]

(***************************************************************************)
(* The store after a method call: db.Save(lk) writes the whole row, or     *)
(* fails and writes nothing.                                               *)
(***************************************************************************)
Saved(k, r, saveOk) == IF r.save /\ saveOk THEN [keys EXCEPT ![k] = r.lk] ELSE keys

Returned(r, saveOk) == IF r.err # "nil" THEN r.err ELSE IF saveOk THEN "ok" ELSE "dberr"

Call(name, k, result) == [op |-> name, id |-> k, result |-> result]

TypeOK ==
    /\ now \in Times
    /\ DOMAIN keys \subseteq KeyIDs
    /\ \A k \in DOMAIN keys :
          /\ keys[k].Status \in Statuses
          /\ keys[k].ExpiresAt \in {NULL} \cup 0..(MaxTime + MaxDays)
          /\ keys[k].MaxActivations \in Limits
          /\ keys[k].CurrentActivations \in 0..MaxLimit
          /\ keys[k].LastValidatedAt \in {NULL} \cup Times

(***************************************************************************)
(* Lifecycle actions.                                                      *)
(***************************************************************************)
InitLifecycle ==
    /\ now = 1
    /\ keys = <<>>
    /\ succ = <<>>
    /\ last = Call("none", 0, "none")

InitWrite ==
    /\ pwPc = "call"
    /\ attempt = 0
    /\ outcomes = <<>>
    /\ delay = 0
    /\ slept = 0
    /\ pwRet = NoError

\* Rows the email_settings table may hold, and the requests served at once.
MaxSettings == 3
SettingIDs == 1..MaxSettings
Procs == {1, 2}

\* A call on EmailSettings: the row it targeted (its id once stored), the
\* store statement that failed, and what the caller was told.
SCall(name, id, failed, result) ==
    [op |-> name, id |-> id, failed |-> failed, result |-> result]

\* A request that is not inside a call.
Idle == [op |-> "none", id |-> 0, pc |-> "idle"]

InitSettings ==
    /\ settings = <<>>
    /\ slast = SCall("none", 0, "none", "none")
    /\ procs = [p \in Procs |-> Idle]

\* A provisioning call: the event's email and product identifier, what the
\* call returned ("ignored": nil without issuing, "issued": nil after
\* issuing, "err", "panic"), the rows it used and the notification it made.
PCall(email, productIDStr, result, customer, key, sent) ==
    [email |-> email, product |-> productIDStr, result |-> result,
     customer |-> customer, key |-> key, sent |-> sent]

InitProv ==
    /\ products = <<>>
    /\ customers = <<>>
    /\ plast = PCall(<<>>, <<>>, "none", 0, 0, "none")
    /\ wlog = <<>>

Init == InitLifecycle /\ InitWrite /\ InitSettings /\ InitProv

\* Time passes.
Tick ==
    /\ now < MaxTime
    /\ now' = now + 1
    /\ last' = Call("Tick", 0, "none")
    /\ UNCHANGED <<keys, succ>>
    /\ UNCHANGED <<writeVars, settingsVars, provVars>>

\* Issuance through the product: db.Create of the generated row.
Issue(k, days, limit, createOk) ==
    /\ k \notin DOMAIN keys
    /\ IF createOk
       THEN /\ keys' = (k :> GenerateLicenseKeyFor(days, limit, now)) @@ keys
            /\ succ' = (k :> 0) @@ succ
            /\ last' = Call("Issue", k, "ok")
       ELSE /\ UNCHANGED <<keys, succ>>
            /\ last' = Call("Issue", k, "dberr")
    /\ UNCHANGED now
    /\ UNCHANGED <<writeVars, settingsVars, provVars>>

\* lk.IncrementUsage(db) on the row as loaded from the store.
DoIncrementUsage(k, saveOk) ==
    /\ k \in DOMAIN keys
    /\ LET r == IncrementUsage(keys[k], now)
       IN  /\ keys' = Saved(k, r, saveOk)
           /\ last' = Call("IncrementUsage", k, Returned(r, saveOk))
           /\ succ' = [succ EXCEPT ![k] = IF Returned(r, saveOk) = "ok" THEN @ + 1 ELSE @]
    /\ UNCHANGED now
    /\ UNCHANGED <<writeVars, settingsVars, provVars>>

\* LicenseKeysHandler.Revoke / AdminHandler.LicenseKeysRevoke.
DoRevoke(k, saveOk) ==
    /\ IF k \notin DOMAIN keys
       THEN /\ last' = Call("Revoke", k, "notfound")
            /\ UNCHANGED keys
       ELSE LET r == Revoke(keys[k], now)
            IN  /\ keys' = Saved(k, r, saveOk)
                /\ last' = Call("Revoke", k, Returned(r, saveOk))
    /\ UNCHANGED <<now, succ>>
    /\ UNCHANGED <<writeVars, settingsVars, provVars>>

\* LicenseKeysHandler.Reactivate / AdminHandler.LicenseKeysReactivate.
DoReactivate(k, saveOk) ==
    /\ IF k \notin DOMAIN keys
       THEN /\ last' = Call("Reactivate", k, "notfound")
            /\ UNCHANGED keys
       ELSE LET r == Reactivate(keys[k], now)
            IN  /\ keys' = Saved(k, r, saveOk)
                /\ last' = Call("Reactivate", k, Returned(r, saveOk))
    /\ UNCHANGED <<now, succ>>
    /\ UNCHANGED <<writeVars, settingsVars, provVars>>

\* APIHandler.VerifyLicense once the product and the row were found:
\* 404 when the row is missing or not valid, 500 when the increment fails.
VerifyLicense(k, incrementUses, saveOk) ==
    /\ IF k \notin DOMAIN keys \/ ~IsValidForUse(keys[k], now)
       THEN /\ last' = Call("VerifyLicense", k, "404")
            /\ UNCHANGED <<keys, succ>>
       ELSE IF incrementUses
       THEN LET r == IncrementUsage(keys[k], now)
            IN  /\ keys' = Saved(k, r, saveOk)
                /\ last' = Call("VerifyIncrement", k,
                                IF Returned(r, saveOk) = "ok" THEN "200" ELSE "500")
                /\ succ' = [succ EXCEPT ![k] = IF Returned(r, saveOk) = "ok" THEN @ + 1 ELSE @]
       ELSE /\ last' = Call("VerifyLicense", k, "200")
            /\ UNCHANGED <<keys, succ>>
    /\ UNCHANGED now
    /\ UNCHANGED <<writeVars, settingsVars, provVars>>

\* LicenseKeysHandler.Update: the admin edit of expires_at and
\* max_activations.  hasExpires / hasMax: the form field parses; a field
\* that is empty or does not parse leaves the column as it is.
Update(k, hasExpires, expiresAt, hasMax, maxActivations, saveOk) ==
    /\ k \in DOMAIN keys
    /\ LET lk == [keys[k] EXCEPT
                    !.ExpiresAt = IF hasExpires THEN expiresAt ELSE @,
                    !.MaxActivations = IF hasMax THEN maxActivations ELSE @]
       IN  /\ keys' = IF saveOk THEN [keys EXCEPT ![k] = lk] ELSE keys
           /\ last' = Call("Update", k, IF saveOk THEN "ok" ELSE "dberr")
    /\ UNCHANGED <<now, succ>>
    /\ UNCHANGED <<writeVars, settingsVars, provVars>>

(***************************************************************************)
(* database.PerformWrite.                                                  *)
(***************************************************************************)
maxRetries == 5
baseDelay == 50000
maxDelay == 1000000

\* The messages operation(db) may fail with: the store's contention errors,
\* bare and wrapped, and errors of other classes.
LockErrors ==
    { <<"database", "is", "locked">>,
      <<"insert", "failed:", "database", "table", "is", "locked">>,
      <<"SQLITE_BUSY">> }
OtherErrors ==
    { <<"UNIQUE", "constraint", "failed">>,
      <<"database", "is", "closed">>,
      <<"table", "is", "locked">> }
OpResults == {NoError} \cup LockErrors \cup OtherErrors

\* Values of time.Now().UnixNano() % 1000 the jitter is computed from.
JitterNanos == {0, 500, 999}

RECURSIVE contains(_, _)
contains(s, substr) ==
    /\ Len(s) >= Len(substr)
    /\ \/ s = substr
       \/ Len(substr) = 0
       \/ SubSeq(s, 1, Len(substr)) = substr
       \/ contains(Tail(s), substr)

isLockError(err) ==
    IF err = NoError THEN FALSE
    ELSE \/ contains(err, <<"database", "is", "locked">>)
         \/ contains(err, <<"SQLITE_BUSY">>)
         \/ contains(err, <<"database", "table", "is", "locked">>)
         \/ contains(err, <<"cannot", "start", "a", "transaction", "within", "a", "transaction">>)

RECURSIVE Pow2(_)
Pow2(n) == IF n = 0 THEN 1 ELSE 2 * Pow2(n - 1)

\* Go's conversion of a float to time.Duration truncates toward zero.
TruncDiv(a, b) == IF a >= 0 THEN a \div b ELSE 0 - ((0 - a) \div b)

\* The delay slept before the retry that follows attempt a, with
\* jitterFactor = (nanos/1000 - 0.5) * 0.5.
Backoff(a, nanos) ==
    LET d == baseDelay * Pow2(a)
        capped == IF d > maxDelay THEN maxDelay ELSE d
    IN  capped + TruncDiv(capped * (nanos - 500), 2000)

\* The error of the statement after the loop,
\* fmt.Errorf("database write failed after %d attempts", maxRetries+1).
ExhaustedError == <<"database", "write", "failed", "after", "attempts">>

\* Mutant: every error is retried, whatever its class.
ShouldRetryAnyError(err, a) == a < maxRetries

\* Mutant: the retry budget is one short.
ShouldRetryOneShort(err, a) == isLockError(err) /\ a < maxRetries - 1

\* The retry test of the loop body.
ShouldRetry(err, a) == isLockError(err) /\ a < maxRetries

\* One pass of the loop body up to its return or its sleep: operation(db)
\* returns err.
PwCall(err, nanos) ==
    /\ pwPc = "call"
    /\ outcomes' = Append(outcomes, err)
    /\ IF err = NoError
       THEN /\ pwPc' = "done"
            /\ pwRet' = NoError
            /\ UNCHANGED delay
       ELSE IF ShouldRetry(err, attempt)
       THEN /\ pwPc' = "sleep"
            /\ delay' = Backoff(attempt, nanos)
            /\ UNCHANGED pwRet
       ELSE /\ pwPc' = "done"
            /\ pwRet' = err
            /\ UNCHANGED delay
    /\ UNCHANGED <<attempt, slept>>
    /\ UNCHANGED <<lifecycleVars, settingsVars, provVars>>

\* time.Sleep(delay); continue: attempt++ and the loop condition.
PwSleep ==
    /\ pwPc = "sleep"
    /\ slept' = slept + 1
    /\ attempt' = attempt + 1
    /\ IF attempt + 1 <= maxRetries
       THEN /\ pwPc' = "call"
            /\ UNCHANGED pwRet
       ELSE /\ pwPc' = "done"
            /\ pwRet' = ExhaustedError
    /\ UNCHANGED <<outcomes, delay>>
    /\ UNCHANGED <<lifecycleVars, settingsVars, provVars>>

NextWrite ==
    \/ \E err \in OpResults, nanos \in JitterNanos : PwCall(err, nanos)
    \/ PwSleep

SpecWrite == Init /\ [][NextWrite]_vars

(***************************************************************************)
(* The pure predicates applied to any row at any time.                     *)
(***************************************************************************)
AllRows ==
    [Status : Statuses, ExpiresAt : {NULL} \cup 0..MaxTime, MaxActivations : Limits,
     CurrentActivations : 0..MaxLimit, LastValidatedAt : {NULL}]

Bool(b) == IF b THEN "true" ELSE "false"

InitPure ==
    /\ now \in Times
    /\ \E row \in AllRows : keys = (1 :> row)
    /\ succ = (1 :> 0)
    /\ last = Call("none", 0, "none")
    /\ InitWrite
    /\ InitSettings
    /\ InitProv

CallIsValidForUse(k) ==
    /\ last' = Call("IsValidForUse", k, Bool(IsValidForUse(keys[k], now)))
    /\ UNCHANGED <<now, keys, succ>>
    /\ UNCHANGED <<writeVars, settingsVars, provVars>>

CallIsExpired(k) ==
    /\ last' = Call("IsExpired", k, Bool(IsExpired(keys[k], now)))
    /\ UNCHANGED <<now, keys, succ>>
    /\ UNCHANGED <<writeVars, settingsVars, provVars>>

\* Mutant: the difference is returned as it is, also when negative.
UsageRemainingUnclamped(lk) ==
    IF lk.MaxActivations = 0 THEN 0 - 1
    ELSE lk.MaxActivations - lk.CurrentActivations

\* (lk *LicenseKey).UsageRemaining.
UsageRemaining(lk) ==
    IF lk.MaxActivations = 0 THEN 0 - 1
    ELSE LET remaining == lk.MaxActivations - lk.CurrentActivations
         IN  IF remaining < 0 THEN 0 ELSE remaining

CallUsageRemaining(k) ==
    /\ last' = Call("UsageRemaining", k, "int") @@ [value |-> UsageRemaining(keys[k])]
    /\ UNCHANGED <<now, keys, succ>>
    /\ UNCHANGED <<writeVars, settingsVars, provVars>>

NextPure ==
    \/ \E k \in KeyIDs : CallIsValidForUse(k)
    \/ \E k \in KeyIDs : CallIsExpired(k)
    \/ \E k \in KeyIDs : CallUsageRemaining(k)

SpecPure == InitPure /\ [][NextPure]_vars

Next ==
    \/ Tick
    \/ \E k \in KeyIDs, days \in Days, limit \in Limits, ok \in BOOLEAN :
          Issue(k, days, limit, ok)
    \/ \E k \in KeyIDs, ok \in BOOLEAN : DoIncrementUsage(k, ok)
    \/ \E k \in KeyIDs, ok \in BOOLEAN : DoRevoke(k, ok)
    \/ \E k \in KeyIDs, ok \in BOOLEAN : DoReactivate(k, ok)
    \/ \E k \in KeyIDs, inc \in BOOLEAN, ok \in BOOLEAN : VerifyLicense(k, inc, ok)

NextAdmin ==
    \/ Next
    \/ \E k \in KeyIDs, he \in BOOLEAN, e \in 0..MaxTime, hm \in BOOLEAN, m \in Limits,
          ok \in BOOLEAN : Update(k, he, e, hm, m, ok)

Spec == Init /\ [][Next]_vars

SpecAdmin == Init /\ [][NextAdmin]_vars
(***************************************************************************)
(* EmailSettings: the active-configuration manager.  A row is modelled by  *)
(* its is_active column.  Rows are never deleted here, so ids are 1..n.    *)
(***************************************************************************)
ActiveRows == {i \in DOMAIN settings : settings[i]}

\* UPDATE email_settings SET is_active = false WHERE id != id.
DeactivateOthers(tbl, id) ==
    [i \in DOMAIN tbl |-> IF i # id THEN FALSE ELSE tbl[i]]

\* UPDATE email_settings SET is_active = false WHERE is_active = true.
DeactivateActive(tbl) == [i \in DOMAIN tbl |-> FALSE]

\* The row db.Save(es) / db.Create(es) writes: a struct whose ID is zero is
\* inserted under the next id, any other is written under its own id.
TargetID(tbl, id) == IF id = 0 THEN Cardinality(DOMAIN tbl) + 1 ELSE id

\* db.Save(es) or db.Create(es) of a struct with IsActive = true.
SaveActive(tbl, id) ==
    [i \in DOMAIN tbl \cup {TargetID(tbl, id)} |->
        IF i = TargetID(tbl, id) THEN TRUE ELSE tbl[i]]

\* UPDATE email_settings SET is_active = true WHERE id = id.
ActivateByID(tbl, id) ==
    [i \in DOMAIN tbl |-> IF i = id THEN TRUE ELSE tbl[i]]

\* The ids a caller may hold in es.ID: 0 for a struct not stored yet.
StructIDs == {0} \cup DOMAIN settings

\* (es *EmailSettings).Save with es.IsActive = true.  The two statements run
\* on the plain connection; the result of the first is discarded.
EsSave(id, deactOk, saveOk) ==
    /\ id \in StructIDs
    /\ id = 0 => Cardinality(DOMAIN settings) < MaxSettings
    /\ LET s1 == IF deactOk THEN DeactivateOthers(settings, id) ELSE settings
           s2 == IF saveOk THEN SaveActive(s1, id) ELSE s1
           failed == IF deactOk THEN (IF saveOk THEN "none" ELSE "save")
                     ELSE (IF saveOk THEN "deactivate" ELSE "both")
       IN  /\ settings' = s2
           /\ slast' = SCall("Save", TargetID(settings, id), failed,
                             IF saveOk THEN "nil" ELSE "err")
    /\ UNCHANGED procs
    /\ UNCHANGED <<lifecycleVars, writeVars, provVars>>

\* (es *EmailSettings).Activate: the same two statements inside a
\* transaction; failed names the statement that returned an error.
EsActivate(id, failed) ==
    /\ id \in StructIDs
    /\ id = 0 => Cardinality(DOMAIN settings) < MaxSettings
    /\ settings' = IF failed = "none"
                   THEN SaveActive(DeactivateOthers(settings, id), id)
                   ELSE settings
    /\ slast' = SCall("Activate", TargetID(settings, id), failed,
                      IF failed = "none" THEN "nil" ELSE "err")
    /\ UNCHANGED procs
    /\ UNCHANGED <<lifecycleVars, writeVars, provVars>>

\* SettingsHandler.CreateEmailSettings.
CreateEmailSettings(portOk, failed) ==
    /\ Cardinality(DOMAIN settings) < MaxSettings
    /\ IF ~portOk
       THEN /\ UNCHANGED settings
            /\ slast' = SCall("CreateEmailSettings", 0, "none", "400")
       ELSE /\ settings' = IF failed = "deactivate" THEN settings
                           ELSE IF failed = "create" THEN DeactivateActive(settings)
                           ELSE SaveActive(DeactivateActive(settings), 0)
            /\ slast' = SCall("CreateEmailSettings", TargetID(settings, 0), failed,
                              IF failed = "none" THEN "302" ELSE "500")
    /\ UNCHANGED procs
    /\ UNCHANGED <<lifecycleVars, writeVars, provVars>>

\* SettingsHandler.ActivateEmailSettings; id is any id the URL may carry.
ActivateEmailSettings(id, failed) ==
    /\ settings' = IF failed = "deactivate" THEN settings
                   ELSE IF failed = "activate" THEN DeactivateActive(settings)
                   ELSE ActivateByID(DeactivateActive(settings), id)
    /\ slast' = SCall("ActivateEmailSettings", id, failed,
                      IF failed = "none" THEN "302" ELSE "500")
    /\ UNCHANGED procs
    /\ UNCHANGED <<lifecycleVars, writeVars, provVars>>

NextSettings ==
    \/ \E id \in 0..MaxSettings, d \in BOOLEAN, ok \in BOOLEAN : EsSave(id, d, ok)
    \/ \E id \in 0..MaxSettings, f \in {"none", "deactivate", "save", "commit"} :
          EsActivate(id, f)

NextSettingsAdmin ==
    \/ NextSettings
    \/ \E portOk \in BOOLEAN, f \in {"none", "deactivate", "create"} :
          CreateEmailSettings(portOk, f)
    \/ \E id \in SettingIDs, f \in {"none", "deactivate", "activate"} :
          ActivateEmailSettings(id, f)

SpecSettings == Init /\ [][NextSettings]_vars

SpecSettingsAdmin == Init /\ [][NextSettingsAdmin]_vars

(***************************************************************************)
(* The same calls made by concurrent requests.  Every statement is atomic  *)
(* in the store; the statements of one call are separate steps, except     *)
(* inside the transaction of Activate, which holds the only connection.    *)
(***************************************************************************)
\* Rows that calls in progress are still to insert.
PendingInserts ==
    Cardinality({p \in Procs : procs[p].pc = "persist" /\ procs[p].id = 0})

\* The first statement of Save / CreateEmailSettings / ActivateEmailSettings.
BeginCall(p, op, id) ==
    /\ procs[p].pc = "idle"
    /\ op \in {"Save", "CreateEmailSettings", "ActivateEmailSettings"}
    /\ op = "Save" => id \in StructIDs
    /\ op = "CreateEmailSettings" => id = 0
    /\ op = "ActivateEmailSettings" => id \in SettingIDs
    /\ id = 0 => Cardinality(DOMAIN settings) + PendingInserts < MaxSettings
    /\ settings' = IF op = "Save" THEN DeactivateOthers(settings, id)
                   ELSE DeactivateActive(settings)
    /\ procs' = [procs EXCEPT ![p] = [op |-> op, id |-> id, pc |-> "persist"]]
    /\ UNCHANGED slast
    /\ UNCHANGED <<lifecycleVars, writeVars, provVars>>

\* The second statement of the call p is in.
FinishCall(p) ==
    /\ procs[p].pc = "persist"
    /\ settings' = IF procs[p].op = "ActivateEmailSettings"
                   THEN ActivateByID(settings, procs[p].id)
                   ELSE SaveActive(settings, procs[p].id)
    /\ procs' = [procs EXCEPT ![p] = Idle]
    /\ UNCHANGED slast
    /\ UNCHANGED <<lifecycleVars, writeVars, provVars>>

\* Activate: begin, both statements and commit, with no statement of any
\* other request in between.
ActivateTx(p, id) ==
    /\ procs[p].pc = "idle"
    /\ id \in StructIDs
    /\ id = 0 => Cardinality(DOMAIN settings) + PendingInserts < MaxSettings
    /\ settings' = SaveActive(DeactivateOthers(settings, id), id)
    /\ UNCHANGED <<procs, slast>>
    /\ UNCHANGED <<lifecycleVars, writeVars, provVars>>

NextSettingsConc ==
    \/ \E p \in Procs, id \in 0..MaxSettings,
          op \in {"Save", "CreateEmailSettings", "ActivateEmailSettings"} :
          BeginCall(p, op, id)
    \/ \E p \in Procs : FinishCall(p)
    \/ \E p \in Procs, id \in 0..MaxSettings : ActivateTx(p, id)

SpecSettingsConc == Init /\ [][NextSettingsConc]_vars

(***************************************************************************)
(* Provisioning: WebhookHandler.processSuccessfulPayment and the model     *)
(* methods it calls.  Strings the code slices or parses are sequences of   *)
(* characters.  A license key row is the lifecycle row plus its token and  *)
(* its two references.                                                     *)
(***************************************************************************)
MaxKeys == 2

\* Column defaults the store applies to a zero value on insert.
DefaultExpirationDays == 365
DefaultUsageLimit == 1

\* Values generateRandomKey(32) may return.
Tokens == {"K1", "K2"}

ShortEmail == <<"b", "o", "b", "@", "x", ".", "i", "o">>
LongEmail ==
    <<"a", "l", "i", "c", "e", "@", "e", "x", "a", "m", "p", "l", "e", ".", "c", "o", "m">>
EventEmails == {<<>>, ShortEmail, LongEmail}
EventNames == {<<>>, <<"A", "l">>}
EventProducts == {<<>>, <<"1">>, <<"x">>}

\* The literal whose length FindOrCreateByEmail cuts off the email.
DomainSuffix == <<"@", "d", "o", "m", "a", "i", "n", ".", "c", "o", "m">>

\* Form values the products handlers are given.
FormDays == {MaxDays}
FormLimits == {0, MaxLimit}

Digits == <<"0", "1", "2", "3", "4", "5", "6", "7", "8", "9">>
IsDigit(c) == \E d \in 1..10 : Digits[d] = c
DigitVal(c) == (CHOOSE d \in 1..10 : Digits[d] = c) - 1

RECURSIVE ParseDigits(_, _)
ParseDigits(s, acc) ==
    IF s = <<>> THEN acc ELSE ParseDigits(Tail(s), acc * 10 + DigitVal(Head(s)))

\* strconv.Atoi: an optional sign followed by one or more decimal digits.
Atoi(s) ==
    LET signed == s # <<>> /\ Head(s) \in {"+", "-"}
        body == IF signed THEN Tail(s) ELSE s
    IN  IF body = <<>> \/ \E i \in 1..Len(body) : ~IsDigit(body[i])
        THEN [ok |-> FALSE, n |-> 0]
        ELSE [ok |-> TRUE,
              n |-> IF signed /\ Head(s) = "-" THEN 0 - ParseDigits(body, 0)
                    ELSE ParseDigits(body, 0)]

\* The place of a deleted row: primary keys are AUTOINCREMENT, so the id of
\* a deleted row is not given to a later insert.
Gone == [Deleted |-> TRUE]

\* The rows of a table that are stored.
Live(tbl) == {i \in DOMAIN tbl : tbl[i] # Gone}

\* h.db.First(&product, productID) returned no error: the statement ran and
\* a row has that id.
FirstProduct(tbl, id, ok) == ok /\ id \in Live(tbl)

EmailRows(tbl, email) == {i \in Live(tbl) : tbl[i].Email = email}

\* Mutant: the customers table has no unique index on email.
FindOrCreateByEmailNoIndex(tbl, email, name, findOk, createOk) ==
    IF findOk /\ EmailRows(tbl, email) # {}
    THEN [tbl |-> tbl, err |-> "nil",
          id |-> CHOOSE i \in EmailRows(tbl, email) : \A j \in EmailRows(tbl, email) : i <= j]
    ELSE IF name = <<>> /\ Len(email) < Len(DomainSuffix)
    THEN [tbl |-> tbl, err |-> "panic", id |-> 0]
    ELSE IF ~createOk
    THEN [tbl |-> tbl, err |-> "err", id |-> 0]
    ELSE [tbl |-> Append(tbl,
                    [Email |-> email,
                     Name |-> IF name = <<>>
                              THEN SubSeq(email, 1, Len(email) - Len(DomainSuffix))
                              ELSE name]),
          err |-> "nil", id |-> Len(tbl) + 1]

\* (c *Customer).FindOrCreateByEmail.  findOk: the lookup statement ran (a
\* lookup that fails for any reason is treated as a miss); createOk: the
\* insert met no store error.  The insert also fails on the unique index on
\* email.  An empty name is cut from the email and the slice expression
\* panics when the email is shorter than the suffix.
FindOrCreateByEmail(tbl, email, name, findOk, createOk) ==
    IF findOk /\ EmailRows(tbl, email) # {}
    THEN [tbl |-> tbl, err |-> "nil",
          id |-> CHOOSE i \in EmailRows(tbl, email) : \A j \in EmailRows(tbl, email) : i <= j]
    ELSE IF name = <<>> /\ Len(email) < Len(DomainSuffix)
    THEN [tbl |-> tbl, err |-> "panic", id |-> 0]
    ELSE IF ~createOk \/ EmailRows(tbl, email) # {}
    THEN [tbl |-> tbl, err |-> "err", id |-> 0]
    ELSE [tbl |-> Append(tbl,
                    [Email |-> email,
                     Name |-> IF name = <<>>
                              THEN SubSeq(email, 1, Len(email) - Len(DomainSuffix))
                              ELSE name]),
          err |-> "nil", id |-> Len(tbl) + 1]

KeyTokens(tbl) == {tbl[i].Key : i \in DOMAIN tbl}

\* Mutant: the license_keys table has no unique index on key.
CreateKeyFailsNoIndex(tbl, token, createOk) == ~createOk

\* db.Create(licenseKey) returns an error: a store error, or the unique
\* index on key when the token is already taken.
CreateKeyFails(tbl, token, createOk) == ~createOk \/ token \in KeyTokens(tbl)

\* EmailService.SendLicenseKey: fails when no row is active, else as the
\* SMTP delivery does.
SendLicenseKey(tbl, smtpOk) ==
    IF {i \in DOMAIN tbl : tbl[i]} = {} THEN "failed"
    ELSE IF smtpOk THEN "ok" ELSE "failed"

\* Mutant: a failed notification fails the call.
ReturnAfterSendStrict(sent) == IF sent = "failed" THEN "err" ELSE "issued"

\* What processSuccessfulPayment returns once the key exists: the error of
\* SendLicenseKey is logged and nil is returned.
ReturnAfterSend(sent) == "issued"

\* Errors of the store: contention, a unique index, a foreign key.
ErrLocked == <<"database", "is", "locked">>
ErrUnique == <<"UNIQUE", "constraint", "failed">>
ErrForeignKey == <<"FOREIGN", "KEY", "constraint", "failed">>

\* One write statement as a handler issued it.
Write(stmt, attempts, err) == [stmt |-> stmt, attempts |-> attempts, err |-> err]

\* The insert FindOrCreateByEmail issues with db.Create, if it gets that far.
CustomerInsert(tbl, email, name, findOk, createOk) ==
    IF \/ findOk /\ EmailRows(tbl, email) # {}
       \/ name = <<>> /\ Len(email) < Len(DomainSuffix)
    THEN <<>>
    ELSE <<Write("customers.insert", 1,
                 IF ~createOk THEN ErrLocked
                 ELSE IF EmailRows(tbl, email) # {} THEN ErrUnique
                 ELSE NoError)>>

\* The insert GenerateLicenseKeyFor issues with db.Create.
LicenseKeyInsert(tbl, token, createOk) ==
    <<Write("license_keys.insert", 1,
            IF ~createOk THEN ErrLocked
            ELSE IF token \in KeyTokens(tbl) THEN ErrUnique
            ELSE NoError)>>

\* processSuccessfulPayment(email, name, productIDStr, paymentData).  The
\* save of the payment metadata rewrites the row just created with the same
\* columns modelled here and its result is discarded.
processSuccessfulPayment(email, name, productIDStr, productOk, findOk, custOk,
                         token, keyOk, smtpOk) ==
    /\ Cardinality(DOMAIN keys) < MaxKeys
    /\ LET productID == Atoi(productIDStr)
           c == FindOrCreateByEmail(customers, email, name, findOk, custOk)
           k == Cardinality(DOMAIN keys) + 1
           sent == SendLicenseKey(settings, smtpOk)
       IN  IF \/ email = <<>> \/ productIDStr = <<>>
              \/ ~productID.ok
              \/ ~FirstProduct(products, productID.n, productOk)
           THEN /\ plast' = PCall(email, productIDStr, "ignored", 0, 0, "none")
                /\ wlog' = <<>>
                /\ UNCHANGED <<customers, keys, succ>>
           ELSE IF c.err # "nil"
           THEN /\ plast' = PCall(email, productIDStr, c.err, 0, 0, "none")
                /\ wlog' = CustomerInsert(customers, email, name, findOk, custOk)
                /\ UNCHANGED <<customers, keys, succ>>
           ELSE IF CreateKeyFails(keys, token, keyOk)
           THEN /\ customers' = c.tbl
                /\ plast' = PCall(email, productIDStr, "err", c.id, 0, "none")
                /\ wlog' = CustomerInsert(customers, email, name, findOk, custOk)
                               \o LicenseKeyInsert(keys, token, keyOk)
                /\ UNCHANGED <<keys, succ>>
           ELSE /\ customers' = c.tbl
                /\ wlog' = CustomerInsert(customers, email, name, findOk, custOk)
                               \o LicenseKeyInsert(keys, token, keyOk)
                /\ keys' = (k :> (GenerateLicenseKeyFor(
                                      products[productID.n].DefaultExpirationDays,
                                      products[productID.n].DefaultUsageLimit, now)
                                  @@ [Key |-> token, ProductID |-> productID.n,
                                      CustomerID |-> c.id])) @@ keys
                /\ succ' = (k :> 0) @@ succ
                /\ plast' = PCall(email, productIDStr, ReturnAfterSend(sent),
                                  c.id, k, sent)
    /\ UNCHANGED <<now, last, products>>
    /\ UNCHANGED <<writeVars, settingsVars>>

\* ProductsHandler.Create: the insert replaces zero values by the column
\* defaults.
ProductsCreate(days, limit, ok) ==
    /\ products = <<>>
    /\ products' = IF ok
                   THEN (1 :> [DefaultExpirationDays |->
                                   IF days = 0 THEN DefaultExpirationDays ELSE days,
                               DefaultUsageLimit |->
                                   IF limit = 0 THEN DefaultUsageLimit ELSE limit])
                   ELSE products
    /\ UNCHANGED <<customers, plast, wlog>>
    /\ UNCHANGED <<lifecycleVars, writeVars, settingsVars>>

\* ProductsHandler.Update with a usage limit in the form and no parsable
\* expiration days: db.Save writes the struct as it is.
ProductsUpdate(p, limit, ok) ==
    /\ p \in Live(products)
    /\ products' = IF ok THEN [products EXCEPT ![p].DefaultUsageLimit = limit]
                   ELSE products
    /\ UNCHANGED <<customers, plast, wlog>>
    /\ UNCHANGED <<lifecycleVars, writeVars, settingsVars>>

\* The store statement or delivery that fails during a call, if any.
Faults == {"none", "product", "find", "customer", "key", "smtp"}

NextProv ==
    \/ \E email \in EventEmails, name \in EventNames, pid \in EventProducts,
          token \in Tokens, f \in Faults :
          processSuccessfulPayment(email, name, pid, f # "product", f # "find",
                                   f # "customer", token, f # "key", f # "smtp")
    \/ \E days \in FormDays, limit \in FormLimits, ok \in BOOLEAN :
          ProductsCreate(days, limit, ok)
    \/ \E p \in {1}, limit \in FormLimits, ok \in BOOLEAN : ProductsUpdate(p, limit, ok)
    \/ settings = <<>> /\ CreateEmailSettings(TRUE, "none")

SpecProv == Init /\ [][NextProv]_vars

(***************************************************************************)
(* APIHandler.VerifyLicense under concurrent requests.  The handler reads  *)
(* the row into a struct of its own, and IncrementUsage checks, counts and *)
(* db.Save()s that struct: the read and the write are two statements, and  *)
(* statements of other requests may run between them.                      *)
(***************************************************************************)
\* A request that holds the row it read and has yet to call IncrementUsage.
Loaded(k, lk) == [op |-> "VerifyLicense", id |-> k, pc |-> "increment", row |-> lk]

\* The handler up to its call of IncrementUsage: the lookup, the validity
\* check on the row just read and the increment_uses_count switch.
VerifyLicenseLoad(p, k, incrementUses) ==
    /\ procs[p] = Idle
    /\ IF k \notin DOMAIN keys \/ ~IsValidForUse(keys[k], now)
       THEN /\ last' = Call("VerifyLicense", k, "404")
            /\ UNCHANGED procs
       ELSE IF incrementUses
       THEN /\ procs' = [procs EXCEPT ![p] = Loaded(k, keys[k])]
            /\ last' = Call("VerifyLoad", k, "none")
       ELSE /\ last' = Call("VerifyLicense", k, "200")
            /\ UNCHANGED procs
    /\ UNCHANGED <<now, keys, succ, settings, slast>>
    /\ UNCHANGED <<writeVars, provVars>>

\* The rest of the handler: IncrementUsage on the struct read earlier, whose
\* db.Save writes every column of that struct over the stored row.
VerifyLicenseIncrement(p, saveOk) ==
    /\ procs[p].pc = "increment"
    /\ LET k == procs[p].id
           r == IncrementUsage(procs[p].row, now)
       IN  /\ keys' = Saved(k, r, saveOk)
           /\ last' = Call("VerifyIncrement", k,
                           IF Returned(r, saveOk) = "ok" THEN "200" ELSE "500")
           /\ succ' = [succ EXCEPT ![k] = IF Returned(r, saveOk) = "ok" THEN @ + 1 ELSE @]
    /\ procs' = [procs EXCEPT ![p] = Idle]
    /\ UNCHANGED <<now, settings, slast>>
    /\ UNCHANGED <<writeVars, provVars>>

NextVerifyConc ==
    \/ Tick
    \/ \E k \in KeyIDs, days \in Days, limit \in Limits, ok \in BOOLEAN :
          Issue(k, days, limit, ok)
    \/ \E p \in Procs, k \in KeyIDs, inc \in BOOLEAN : VerifyLicenseLoad(p, k, inc)
    \/ \E p \in Procs, ok \in BOOLEAN : VerifyLicenseIncrement(p, ok)

SpecVerifyConc == Init /\ [][NextVerifyConc]_vars

(***************************************************************************)
(* processSuccessfulPayment under concurrent webhook deliveries.  The      *)
(* lookup of FindOrCreateByEmail, its db.Create and the db.Create of       *)
(* GenerateLicenseKeyFor are three statements with no transaction around   *)
(* them; statements of another delivery may run between any two.           *)
(***************************************************************************)
\* A delivery in flight or finished: what it was called with, whether its
\* lookup found no row, and what it resolved to.  Each process carries one
\* delivery that passes validation and keeps its outcome.
Delivery(pc, email, name, productID, missed, customer, key, result) ==
    [op |-> "processSuccessfulPayment", id |-> productID, pc |-> pc,
     email |-> email, name |-> name, missed |-> missed,
     customer |-> customer, key |-> key, result |-> result]

\* The handler up to the lookup of FindOrCreateByEmail.
ProvisionLookup(p, email, name, productIDStr) ==
    /\ procs[p] = Idle
    /\ LET productID == Atoi(productIDStr)
           found == EmailRows(customers, email)
       IN  IF \/ email = <<>> \/ productIDStr = <<>>
              \/ ~productID.ok
              \/ ~FirstProduct(products, productID.n, TRUE)
           THEN /\ plast' = PCall(email, productIDStr, "ignored", 0, 0, "none")
                /\ procs' = [procs EXCEPT ![p] = Idle]
           ELSE /\ procs' = [procs EXCEPT ![p] =
                      IF found # {}
                      THEN Delivery("key", email, name, productID.n, FALSE,
                                    CHOOSE i \in found : \A j \in found : i <= j,
                                    0, "none")
                      ELSE Delivery("insert", email, name, productID.n, TRUE,
                                    0, 0, "none")]
                /\ UNCHANGED plast
    /\ UNCHANGED <<lifecycleVars, writeVars, settings, slast, products, customers, wlog>>

\* FindOrCreateByEmail after a lookup that found nothing: the name default
\* and db.Create(&customer), checked by the unique index at this moment.
ProvisionInsert(p) ==
    /\ procs[p].pc = "insert"
    /\ LET d == procs[p]
           c == FindOrCreateByEmail(customers, d.email, d.name, FALSE, TRUE)
       IN  IF c.err # "nil"
           THEN /\ procs' = [procs EXCEPT ![p] =
                                 Delivery("done", d.email, d.name, d.id, TRUE, 0, 0, c.err)]
                /\ UNCHANGED customers
           ELSE /\ customers' = c.tbl
                /\ procs' = [procs EXCEPT ![p] =
                                 Delivery("key", d.email, d.name, d.id, TRUE, c.id, 0, "none")]
    /\ UNCHANGED <<lifecycleVars, writeVars, settings, slast, products, plast, wlog>>

\* GenerateLicenseKeyFor and the notification, for the customer resolved.
ProvisionKey(p, token, smtpOk) ==
    /\ procs[p].pc = "key"
    /\ Cardinality(DOMAIN keys) < MaxKeys
    /\ LET d == procs[p]
           k == Cardinality(DOMAIN keys) + 1
           sent == SendLicenseKey(settings, smtpOk)
       IN  IF CreateKeyFails(keys, token, TRUE)
           THEN /\ procs' = [procs EXCEPT ![p] =
                                 Delivery("done", d.email, d.name, d.id, d.missed,
                                          d.customer, 0, "err")]
                /\ UNCHANGED <<keys, succ>>
           ELSE /\ keys' = (k :> (GenerateLicenseKeyFor(
                                      products[d.id].DefaultExpirationDays,
                                      products[d.id].DefaultUsageLimit, now)
                                  @@ [Key |-> token, ProductID |-> d.id,
                                      CustomerID |-> d.customer])) @@ keys
                /\ succ' = (k :> 0) @@ succ
                /\ procs' = [procs EXCEPT ![p] =
                                 Delivery("done", d.email, d.name, d.id, d.missed,
                                          d.customer, k, ReturnAfterSend(sent))]
    /\ UNCHANGED <<now, last, writeVars, settings, slast, products, customers, plast, wlog>>

NextProvConc ==
    \/ \E p \in Procs, email \in EventEmails, name \in EventNames,
          productIDStr \in EventProducts :
          ProvisionLookup(p, email, name, productIDStr)
    \/ \E p \in Procs : ProvisionInsert(p)
    \* No settings row exists in this specification: the notification fails
    \* whatever the server would have answered.
    \/ \E p \in Procs, token \in Tokens : ProvisionKey(p, token, TRUE)
    \/ \E days \in FormDays, limit \in FormLimits, ok \in BOOLEAN :
          ProductsCreate(days, limit, ok)

SpecProvConc == Init /\ [][NextProvConc]_vars

(***************************************************************************)
(* APIHandler.VerifyLicense from the form values on: the product lookup,   *)
(* the row lookup by (product_id, key), the validity check and the         *)
(* increment.  The store it runs against is any of a bounded set of tables *)
(* the admin handlers and provisioning can leave behind.                   *)
(***************************************************************************)
\* Form values of the request.
FormProducts == {<<>>, <<"1">>, <<"2">>, <<"x">>}
FormKeys == Tokens \cup {""}
FormIncrements == {"", "false"}

\* Lifecycle columns of the rows in the tables: a fresh row (which the
\* requests of the run may exhaust), a row with a use left whose date passes
\* during the run, and a revoked row.
StoredLifecycles ==
    { [Status |-> "active", ExpiresAt |-> 1 + MaxDays,
       MaxActivations |-> DefaultUsageLimit,
       CurrentActivations |-> 0, LastValidatedAt |-> NULL],
      [Status |-> "active", ExpiresAt |-> 1, MaxActivations |-> MaxLimit,
       CurrentActivations |-> 1, LastValidatedAt |-> 1],
      [Status |-> "revoked", ExpiresAt |-> 1 + MaxDays, MaxActivations |-> MaxLimit,
       CurrentActivations |-> 0, LastValidatedAt |-> NULL] }

StoredProduct ==
    [DefaultExpirationDays |-> MaxDays, DefaultUsageLimit |-> DefaultUsageLimit]

\* The token of row i: tokens are unique, and which random token an
\* insert drew does not depend on its position.
TokenOf(i) == IF i = 1 THEN "K1" ELSE "K2"

\* license_keys tables over the products of tbl: every row belongs to a
\* stored product and to customer 1.
StoredKeys(tbl) ==
    UNION { { [i \in ids |-> lc[i] @@ [Key |-> TokenOf(i), ProductID |-> pr[i],
                                       CustomerID |-> 1]] :
                lc \in [ids -> StoredLifecycles], pr \in [ids -> DOMAIN tbl] } :
            ids \in {{}, {1}, {1, 2}} }

InitVerify ==
    /\ now = 1
    /\ last = Call("none", 0, "none")
    /\ products \in {<<>>, <<StoredProduct>>, <<StoredProduct, StoredProduct>>}
    /\ keys \in StoredKeys(products)
    /\ succ = [k \in DOMAIN keys |-> 0]
    /\ customers = IF keys = <<>> THEN <<>>
                   ELSE <<[Email |-> LongEmail, Name |-> <<"A", "l">>]>>
    /\ plast = PCall(<<>>, <<>>, "none", 0, 0, "none")
    /\ wlog = <<>>
    /\ InitWrite
    /\ InitSettings

\* Mutant: the row is looked up by its token alone.
KeyRowsAnyProduct(tbl, productID, licenseKey) ==
    {k \in DOMAIN tbl : tbl[k].Key = licenseKey}

\* Where("product_id = ? AND key = ?", productID, licenseKey).
KeyRows(tbl, productID, licenseKey) ==
    {k \in DOMAIN tbl : tbl[k].ProductID = productID /\ tbl[k].Key = licenseKey}

\* The request as the handler saw it, and its answer.
VCall(productIDStr, licenseKey, incrementUsesStr, k, result) ==
    [op |-> "VerifyRequest", id |-> k, result |-> result,
     product |-> productIDStr, key |-> licenseKey, increment |-> incrementUsesStr]

VerifyLicenseRequest(productIDStr, licenseKey, incrementUsesStr, productOk, findOk, saveOk) ==
    /\ LET productID == Atoi(productIDStr)
           found == KeyRows(keys, productID.n, licenseKey)
           k == CHOOSE i \in found : \A j \in found : i <= j
           incrementUses == incrementUsesStr # "false"
           answer(id, result) ==
               VCall(productIDStr, licenseKey, incrementUsesStr, id, result)
       IN  IF \/ productIDStr = <<>> \/ licenseKey = ""
              \/ ~productID.ok
              \/ ~FirstProduct(products, productID.n, productOk)
              \/ ~findOk \/ found = {}
           THEN /\ last' = answer(0, "404")
                /\ UNCHANGED <<keys, succ>>
           ELSE IF ~IsValidForUse(keys[k], now)
           THEN /\ last' = answer(k, "404")
                /\ UNCHANGED <<keys, succ>>
           ELSE IF incrementUses
           THEN LET r == IncrementUsage(keys[k], now)
                IN  /\ keys' = Saved(k, r, saveOk)
                    /\ last' = answer(k, IF Returned(r, saveOk) = "ok" THEN "200" ELSE "500")
                    /\ succ' = [succ EXCEPT ![k] =
                                   IF Returned(r, saveOk) = "ok" THEN @ + 1 ELSE @]
           ELSE /\ last' = answer(k, "200")
                /\ UNCHANGED <<keys, succ>>
    /\ UNCHANGED now
    /\ UNCHANGED <<writeVars, settingsVars, provVars>>

\* The statement of the request that fails, if any.
VerifyFaults == {"none", "product", "find", "save"}

NextVerify ==
    \/ Tick
    \/ \E productIDStr \in FormProducts, licenseKey \in FormKeys,
          incrementUsesStr \in FormIncrements, fault \in VerifyFaults :
          VerifyLicenseRequest(productIDStr, licenseKey, incrementUsesStr,
                               fault # "product", fault # "find", fault # "save")

SpecVerify == InitVerify /\ [][NextVerify]_vars

(***************************************************************************)
(* The admin handlers that create, re-point and delete rows, against a     *)
(* store that enforces its constraints: the unique index on                *)
(* license_keys.key, and the foreign keys license_keys.product_id and      *)
(* license_keys.customer_id that AutoMigrate creates for the relations of  *)
(* LicenseKey and that the connection enforces (_foreign_keys=on).         *)
(***************************************************************************)
\* Form values of the admin requests.
FormIDs == {<<>>, <<"1">>, <<"2">>}

\* strconv.Atoi with its error dropped: the value is 0 when the text does
\* not parse.
AtoiOrZero(s) == IF Atoi(s).ok THEN Atoi(s).n ELSE 0

\* Mutant: the store does not check references on delete.
ReferencedUnchecked(tbl, column, id) == FALSE

\* A DELETE of parent row id violates the foreign key of column.
Referenced(tbl, column, id) == \E k \in DOMAIN tbl : tbl[k][column] = id

\* Mutant: the store does not check references on update.
DanglingUnchecked(lk) == FALSE

\* An INSERT or UPDATE of lk violates a foreign key.
Dangling(lk) ==
    \/ lk.ProductID \notin Live(products)
    \/ lk.CustomerID \notin Live(customers)

\* Mutant: no token counts as taken.
TakenNever(tbl, token) == FALSE

\* The unique index on license_keys.key holds token already.
Taken(tbl, token) == token \in KeyTokens(tbl)

\* LicenseKeysHandler.Create.  token is what generateRandomKey draws when
\* the form supplies no key.
LicenseKeysCreate(productIDStr, customerIDStr, key, maxActivations, token, createOk) ==
    /\ Cardinality(DOMAIN keys) < MaxKeys
    /\ LET productID == AtoiOrZero(productIDStr)
           customerID == AtoiOrZero(customerIDStr)
           k == Cardinality(DOMAIN keys) + 1
           product == products[productID]
           limit == IF maxActivations = 0 THEN product.DefaultUsageLimit
                    ELSE maxActivations
           supplied == [Status |-> "active",
                        ExpiresAt |-> IF product.DefaultExpirationDays > 0
                                      THEN now + product.DefaultExpirationDays
                                      ELSE NULL,
                        MaxActivations |-> IF limit = 0 THEN 1 ELSE limit,
                        CurrentActivations |-> 0, LastValidatedAt |-> NULL]
           generated == GenerateLicenseKeyFor(product.DefaultExpirationDays,
                                              product.DefaultUsageLimit, now)
           stored == IF key = "" THEN token ELSE key
           row == (IF key = "" THEN generated ELSE supplied)
                      @@ [Key |-> stored, ProductID |-> productID,
                          CustomerID |-> customerID]
       IN  IF ~FirstProduct(products, productID, TRUE) \/ customerID \notin Live(customers)
           THEN /\ last' = Call("LicenseKeysCreate", 0, "400")
                /\ wlog' = <<>>
                /\ UNCHANGED <<keys, succ>>
           ELSE IF ~createOk \/ Taken(keys, stored)
           THEN /\ last' = Call("LicenseKeysCreate", 0, "500")
                /\ wlog' = LicenseKeyInsert(keys, stored, createOk)
                /\ UNCHANGED <<keys, succ>>
           ELSE /\ keys' = (k :> row) @@ keys
                /\ succ' = (k :> 0) @@ succ
                /\ last' = Call("LicenseKeysCreate", k, "302")
                /\ wlog' = LicenseKeyInsert(keys, stored, createOk)
    /\ UNCHANGED <<now, products, customers, plast>>
    /\ UNCHANGED <<writeVars, settingsVars>>

\* LicenseKeysHandler.Update with product_id and customer_id in the form and
\* the other fields left empty: db.Save through PerformWrite.  A rejected
\* reference is no contention error and is returned at the first attempt;
\* saveOk = FALSE is a store that stays locked for every attempt.
UpdateReferences(k, productIDStr, customerIDStr, saveOk) ==
    /\ IF k \notin DOMAIN keys
       THEN /\ last' = Call("Update", k, "404")
            /\ wlog' = <<>>
            /\ UNCHANGED keys
       ELSE LET productID == Atoi(productIDStr)
                customerID == Atoi(customerIDStr)
                lk == [keys[k] EXCEPT
                          !.ProductID = IF productID.ok /\ productID.n > 0
                                        THEN productID.n ELSE @,
                          !.CustomerID = IF customerID.ok /\ customerID.n > 0
                                         THEN customerID.n ELSE @]
            IN  IF ~saveOk
                THEN /\ last' = Call("Update", k, "error")
                     /\ wlog' = <<Write("license_keys.update", maxRetries + 1, ErrLocked)>>
                     /\ UNCHANGED keys
                ELSE IF Dangling(lk)
                THEN /\ last' = Call("Update", k, "error")
                     /\ wlog' = <<Write("license_keys.update", 1, ErrForeignKey)>>
                     /\ UNCHANGED keys
                ELSE /\ keys' = [keys EXCEPT ![k] = lk]
                     /\ last' = Call("Update", k, "302")
                     /\ wlog' = <<Write("license_keys.update", 1, NoError)>>
    /\ UNCHANGED <<now, succ, products, customers, plast>>
    /\ UNCHANGED <<writeVars, settingsVars>>

\* ProductsHandler.Delete: h.db.Delete(&models.Product{}, id), and 500 when
\* the statement fails.
ProductsDelete(idStr, ok) ==
    /\ LET id == AtoiOrZero(idStr)
           err == IF ~ok THEN ErrLocked
                  ELSE IF Referenced(keys, "ProductID", id) THEN ErrForeignKey
                  ELSE NoError
       IN  /\ wlog' = <<Write("products.delete", 1, err)>>
           /\ last' = Call("ProductsDelete", id, IF err = NoError THEN "302" ELSE "500")
           /\ products' = IF err = NoError /\ id \in Live(products)
                          THEN [products EXCEPT ![id] = Gone]
                          ELSE products
    /\ UNCHANGED <<now, keys, succ, customers, plast>>
    /\ UNCHANGED <<writeVars, settingsVars>>

\* CustomersHandler.Delete: db.Delete(&models.Customer{}, id) through
\* PerformWrite, and 500 when it fails.
CustomersDelete(idStr, ok) ==
    /\ LET id == AtoiOrZero(idStr)
           err == IF ~ok THEN ErrLocked
                  ELSE IF Referenced(keys, "CustomerID", id) THEN ErrForeignKey
                  ELSE NoError
       IN  /\ wlog' = <<Write("customers.delete", IF ok THEN 1 ELSE maxRetries + 1, err)>>
           /\ last' = Call("CustomersDelete", id, IF err = NoError THEN "302" ELSE "500")
           /\ customers' = IF err = NoError /\ id \in Live(customers)
                           THEN [customers EXCEPT ![id] = Gone]
                           ELSE customers
    /\ UNCHANGED <<now, keys, succ, products, plast>>
    /\ UNCHANGED <<writeVars, settingsVars>>

NextStore ==
    \/ \E days \in FormDays, limit \in FormLimits, ok \in BOOLEAN :
          ProductsCreate(days, limit, ok)
    \/ \E email \in {ShortEmail, LongEmail}, token \in Tokens :
          processSuccessfulPayment(email, <<"A", "l">>, <<"1">>, TRUE, TRUE, TRUE,
                                   token, TRUE, TRUE)
    \/ \E productIDStr \in FormIDs, customerIDStr \in FormIDs, key \in FormKeys,
          maxActivations \in FormLimits, token \in Tokens, ok \in BOOLEAN :
          /\ key = "" \/ token = key
          /\ LicenseKeysCreate(productIDStr, customerIDStr, key, maxActivations, token, ok)
    \/ \E k \in 1..MaxKeys, productIDStr \in FormIDs, customerIDStr \in FormIDs,
          ok \in BOOLEAN : UpdateReferences(k, productIDStr, customerIDStr, ok)
    \/ \E idStr \in FormIDs, ok \in BOOLEAN : ProductsDelete(idStr, ok)
    \/ \E idStr \in FormIDs, ok \in BOOLEAN : CustomersDelete(idStr, ok)

SpecStore == Init /\ [][NextStore]_vars

(***************************************************************************)
(* Properties.                                                             *)
(***************************************************************************)
\* The step just taken was a call of IncrementUsage on row k (directly or
\* through the verification endpoint) that returned success.
IncrementSucceeded(c, k) ==
    /\ c.id = k
    /\ \/ c.op = "IncrementUsage" /\ c.result = "ok"
       \/ c.op = "VerifyIncrement" /\ c.result = "200"

\* The step just taken was a call of IncrementUsage on row k that was refused
\* (the endpoint answers a refused key with 404).
IncrementRefused(c, k) ==
    /\ c.id = k
    /\ \/ c.op = "IncrementUsage" /\ c.result = "invalid"
       \/ c.op = "VerifyLicense" /\ c.result = "404"

\* C1 (activation ceiling): a row issued with MaxActivations = N > 0 never
\* has more than N successful IncrementUsage calls; right after the N-th
\* successful call its stored status is "expired"; and once N calls have
\* succeeded every further IncrementUsage call is refused as invalid.
C1_ActivationCeiling ==
    \A k \in DOMAIN keys :
        LET N == keys[k].MaxActivations
        IN  N > 0 =>
              /\ succ[k] <= N
              /\ (succ[k] = N /\ IncrementSucceeded(last, k)) => keys[k].Status = "expired"
              /\ (succ[k] = N /\ last.id = k /\ last.op = "IncrementUsage"
                    /\ last.result # "ok") => last.result = "invalid"
              /\ (succ[k] = N /\ last.id = k /\ last.op \in {"VerifyLicense", "VerifyIncrement"}
                    /\ last.result # "200") => last.result = "404"

C1_Witness ==
    /\ 1 \in DOMAIN keys
    /\ keys[1].MaxActivations = 2
    /\ succ[1] = 2
    /\ keys[1].Status = "expired"
    /\ last = Call("IncrementUsage", 1, "invalid")

\* C2: a call of IncrementUsage on a row for which IsValidForUse is false
\* returns the invalid-state error and leaves the stored row (status,
\* CurrentActivations, LastValidatedAt) as it was: nothing is persisted.
C2_IncrementRefusedUnchanged ==
    [][\A k \in DOMAIN keys :
          (last'.op = "IncrementUsage" /\ last'.id = k /\ ~IsValidForUse(keys[k], now))
              => (last'.result = "invalid" /\ keys' = keys /\ succ' = succ)]_vars

C2_Witness ==
    /\ 1 \in DOMAIN keys
    /\ last = Call("IncrementUsage", 1, "invalid")
    /\ keys[1].Status = "revoked"
    /\ keys[1].CurrentActivations < keys[1].MaxActivations
    /\ keys[1].LastValidatedAt # NULL /\ keys[1].LastValidatedAt < now

\* C3: IsValidForUse answers true exactly when the status is "active", the
\* row is not date-expired (ExpiresAt is NULL or not before now) and
\* CurrentActivations < MaxActivations, for every row value; the call
\* changes neither the row nor the clock.
C3_IsValidForUseIff ==
    /\ [](\A k \in DOMAIN keys :
            (last.op = "IsValidForUse" /\ last.id = k) =>
               (last.result = "true" <=>
                  /\ keys[k].Status = "active"
                  /\ (keys[k].ExpiresAt = NULL \/ keys[k].ExpiresAt >= now)
                  /\ keys[k].CurrentActivations < keys[k].MaxActivations))
    /\ [][last'.op = "IsValidForUse" => (keys' = keys /\ now' = now)]_vars

C3_Witness ==
    /\ last = Call("IsValidForUse", 1, "true")
    /\ keys[1].ExpiresAt = now
    /\ keys[1].CurrentActivations + 1 = keys[1].MaxActivations
\* The row is expired by date: ExpiresAt is set and lies before the clock.
DateExpired(k) == keys[k].ExpiresAt # NULL /\ keys[k].ExpiresAt < now

\* C4 (unlimited sentinel): an active row that is not date-expired and has
\* MaxActivations = 0 is valid for use, and IncrementUsage on it is not
\* refused.
C4_UnlimitedSentinel ==
    \A k \in DOMAIN keys :
        (keys[k].MaxActivations = 0 /\ keys[k].Status = "active" /\ ~DateExpired(k))
            => (IsValidForUse(keys[k], now) /\ ~IncrementRefused(last, k))

\* C5 (validity monotonicity): once a row is date-expired it stays so (its
\* ExpiresAt is not edited) and no later step, whatever revoke and
\* reactivate calls come between, is a successful IncrementUsage on it.
C5_ValidityMonotone ==
    [][\A k \in DOMAIN keys :
          DateExpired(k) =>
             /\ k \in DOMAIN keys'
             /\ keys'[k].ExpiresAt # NULL /\ keys'[k].ExpiresAt < now'
             /\ succ'[k] = succ[k]
             /\ ~IncrementSucceeded(last', k)]_vars

C5_Witness ==
    /\ 1 \in DOMAIN keys
    /\ DateExpired(1)
    /\ keys[1].Status = "active"
    /\ keys[1].CurrentActivations < keys[1].MaxActivations
    /\ last = Call("IncrementUsage", 1, "invalid")

\* C6 (reactivation guard): Reactivate on a date-expired row returns the
\* invalid-state error whatever the stored status and leaves the row as it
\* was; on a row that is not date-expired it is never refused, and when its
\* save succeeds the stored row is the old row with status "active".
C6_ReactivationGuard ==
    [][\A k \in DOMAIN keys :
          (last'.op = "Reactivate" /\ last'.id = k) =>
             IF DateExpired(k)
             THEN last'.result = "invalid" /\ keys' = keys
             ELSE /\ last'.result \in {"ok", "dberr"}
                  /\ last'.result = "ok" => keys' = [keys EXCEPT ![k].Status = "active"]
                  /\ last'.result = "dberr" => keys' = keys]_vars

C6_Witness ==
    /\ 1 \in DOMAIN keys
    /\ DateExpired(1)
    /\ keys[1].Status = "revoked"
    /\ last = Call("Reactivate", 1, "invalid")

\* C7 as stated: the status is one of the three values and the only status
\* changes are active -> expired, active -> revoked and revoked -> active,
\* the last only on a row that is not date-expired.
C7_OnlyThreeTransitions ==
    [][\A k \in DOMAIN keys :
          LET s == keys[k].Status
              t == keys'[k].Status
          IN  /\ t \in Statuses
              /\ s # t => \/ s = "active" /\ t = "expired"
                          \/ s = "active" /\ t = "revoked"
                          \/ s = "revoked" /\ t = "active" /\ ~DateExpired(k)]_vars

\* C7 as amended: the status is one of the three values and a step changes
\* it only in these ways: a successful IncrementUsage moves active to
\* expired; a successful Revoke moves any status to revoked; a successful
\* Reactivate moves revoked or expired to active, and only on a row that is
\* not date-expired.
C7_StatusTransitions ==
    [][\A k \in DOMAIN keys :
          LET s == keys[k].Status
              t == keys'[k].Status
          IN  /\ t \in Statuses
              /\ s # t =>
                    \/ s = "active" /\ t = "expired" /\ IncrementSucceeded(last', k)
                    \/ t = "revoked" /\ last' = Call("Revoke", k, "ok")
                    \/ t = "active" /\ last' = Call("Reactivate", k, "ok")
                          /\ ~DateExpired(k)]_vars

C7_Witness ==
    /\ 1 \in DOMAIN keys
    /\ last = Call("Reactivate", 1, "ok")
    /\ keys[1].Status = "active"
    /\ keys[1].MaxActivations > 0
    /\ keys[1].CurrentActivations = keys[1].MaxActivations
    /\ succ[1] = keys[1].MaxActivations

\* C8: Revoke is never refused, whatever the status, expiry and counters of
\* the row; when its save succeeds the stored row is the old row with status
\* "revoked" and no other field changed; and revoking a revoked row leaves
\* it as it is (applying Revoke twice gives what applying it once gives).
C8_RevokeUnconditional ==
    [][\A k \in DOMAIN keys :
          (last'.op = "Revoke" /\ last'.id = k) =>
             /\ last'.result \in {"ok", "dberr"}
             /\ last'.result = "ok" => keys' = [keys EXCEPT ![k].Status = "revoked"]
             /\ last'.result = "dberr" => keys' = keys
             /\ keys[k].Status = "revoked" => keys' = keys
             /\ Revoke(Revoke(keys[k], now).lk, now).lk = Revoke(keys[k], now).lk]_vars

C8_Witness ==
    /\ 1 \in DOMAIN keys
    /\ last = Call("Revoke", 1, "ok")
    /\ keys[1].Status = "revoked"
    /\ DateExpired(1)
    /\ keys[1].CurrentActivations > 0

\* C9: the stored status becomes "expired" only in a step that is a
\* successful IncrementUsage; a row is never issued as expired; and a
\* verification of a date-expired row answers 404 and writes nothing, so
\* the row keeps the status it had.
C9_ExpiredOnlyByIncrement ==
    [][/\ \A k \in DOMAIN keys' :
             keys'[k].Status = "expired" =>
                 \/ k \in DOMAIN keys /\ keys[k].Status = "expired"
                 \/ k \in DOMAIN keys /\ IncrementSucceeded(last', k)
                       /\ succ'[k] = succ[k] + 1
       /\ \A k \in DOMAIN keys :
             (DateExpired(k) /\ last'.id = k
                /\ last'.op \in {"VerifyLicense", "VerifyIncrement"})
                 => (last'.result = "404" /\ keys' = keys)]_vars

C9_Witness ==
    /\ 1 \in DOMAIN keys
    /\ DateExpired(1)
    /\ keys[1].Status = "active"
    /\ last = Call("VerifyLicense", 1, "404")
\* Every call of the operation made so far reported contention.
AllContention == \A i \in 1..Len(outcomes) : outcomes[i] \in LockErrors

\* C10 (retry bound): PerformWrite never invokes the operation more than 6
\* times; when it has returned and every invocation reported contention, it
\* made exactly 6 invocations and returned an error; when the first two
\* invocations reported contention and the third succeeded, it made exactly
\* 3 invocations and returned no error.
C10_RetryBound ==
    /\ Len(outcomes) <= 6
    /\ (pwPc = "done" /\ AllContention) => (Len(outcomes) = 6 /\ pwRet # NoError)
    /\ (Len(outcomes) >= 3 /\ outcomes[1] \in LockErrors /\ outcomes[2] \in LockErrors
          /\ outcomes[3] = NoError)
            => (Len(outcomes) = 3 /\ pwPc = "done" /\ pwRet = NoError)

C10_Witness ==
    /\ pwPc = "done"
    /\ AllContention
    /\ Len(outcomes) = 6
    /\ slept = 5
    /\ pwRet \in LockErrors
\* C11 (terminal error): when PerformWrite gives up because every one of its
\* maxRetries + 1 attempts met contention, the error it returns is the
\* terminal error that identifies exhausted retries, not the raw contention
\* error of the last attempt.
C11_TerminalError ==
    (pwPc = "done" /\ AllContention /\ Len(outcomes) = maxRetries + 1)
        => /\ pwRet = ExhaustedError
           /\ pwRet # outcomes[Len(outcomes)]
           /\ ~isLockError(pwRet)

\* A position of outcomes holding an error of a class other than contention.
NonContentionAt(i) == outcomes[i] # NoError /\ ~isLockError(outcomes[i])

\* C12 (no retry of other errors): an attempt that returns an error carrying
\* none of the contention markers is the last one: PerformWrite has returned
\* that same error, has not slept after it, and the operation is not invoked
\* again.  This holds on the first attempt and after contention retries.
C12_NonContentionImmediate ==
    \A i \in 1..Len(outcomes) :
        NonContentionAt(i) =>
            /\ i = Len(outcomes)
            /\ pwPc = "done"
            /\ pwRet = outcomes[i]
            /\ slept = i - 1
            /\ attempt = i - 1

\* Two contention retries, then an error of another class on attempt 2.
C12_Witness ==
    /\ Len(outcomes) = 3
    /\ outcomes[1] \in LockErrors
    /\ outcomes[2] \in LockErrors
    /\ outcomes[3] = <<"table", "is", "locked">>
    /\ pwPc = "done"
    /\ pwRet = outcomes[3]
    /\ slept = 2

\* C13 (single active, sequential): after any sequence of Save(isActive =
\* true) and Activate calls made one after the other, at most one row is
\* active, and after each call that returned nil exactly one row is active
\* and it is the row the call targeted.
C13_SingleActive ==
    /\ Cardinality(ActiveRows) <= 1
    /\ (slast.op \in {"Save", "Activate"} /\ slast.result = "nil")
           => ActiveRows = {slast.id}

\* No request is inside a call.
AllIdle == \A p \in Procs : procs[p].pc = "idle"

\* C14 (single active, concurrent): whatever the interleaving of the store
\* statements of concurrent activations, once every call has completed no
\* two rows are active.
C14_NoTwoActive == AllIdle => Cardinality(ActiveRows) <= 1

\* C15 (all or nothing): a Save(isActive = true), Activate or handler
\* activation in which the deactivate-others statement or the statement
\* that persists the target fails leaves the table as it was before the call
\* and reports the failure to its caller.
C15_AllOrNothing ==
    [][(slast'.failed # "none")
          => (settings' = settings /\ slast'.result \in {"err", "500"})]_vars

\* The step is a call of processSuccessfulPayment (one that repeats the
\* previous call and changes no table is a stuttering step).
Provisioned == <<plast, customers, keys, wlog>>' # <<plast, customers, keys, wlog>>

\* C16 (customer uniqueness): after any sequence of provisioning calls no
\* two Customer rows carry the same email, and a call whose email already has
\* a row inserts no Customer and, when it issues a key, gives the key that
\* row's id as customerID.
C16_CustomerUnique ==
    [][/\ \A i, j \in DOMAIN customers' :
              customers'[i].Email = customers'[j].Email => i = j
       /\ (Provisioned /\ EmailRows(customers, plast'.email) # {})
              => /\ customers' = customers
                 /\ plast'.key # 0 =>
                        keys'[plast'.key].CustomerID \in EmailRows(customers, plast'.email)]_vars

\* A second key issued to the first customer while another customer exists.
C16_Witness ==
    /\ Len(customers) = 2
    /\ plast.result = "issued"
    /\ plast.key = 2
    /\ plast.customer = 1
    /\ keys[1].CustomerID = 1
    /\ keys[2].CustomerID = 1

\* C17 (no deduplication): every provisioning call that issues adds exactly
\* one license key row, with a token no other row has, and leaves the other
\* rows alone; a call that repeats the event of the call before it, both
\* issuing, leaves two rows with distinct tokens that reference the same
\* single Customer and the same Product.
C17_NoDedup ==
    [][(Provisioned /\ plast'.result = "issued")
          => /\ plast'.key \notin DOMAIN keys
             /\ DOMAIN keys' = DOMAIN keys \cup {plast'.key}
             /\ \A i \in DOMAIN keys : keys'[i] = keys[i]
             /\ keys'[plast'.key].Key \notin KeyTokens(keys)
             /\ (/\ plast.result = "issued"
                 /\ plast.email = plast'.email
                 /\ plast.product = plast'.product)
                    => /\ plast.key # plast'.key
                       /\ keys'[plast.key].Key # keys'[plast'.key].Key
                       /\ keys'[plast.key].CustomerID = keys'[plast'.key].CustomerID
                       /\ keys'[plast.key].ProductID = keys'[plast'.key].ProductID
                       /\ Cardinality(EmailRows(customers', plast'.email)) = 1]_vars

\* The same event delivered twice: two keys, one customer.
C17_Witness ==
    /\ plast.result = "issued"
    /\ plast.email = LongEmail
    /\ Len(customers) = 1
    /\ DOMAIN keys = {1, 2}
    /\ keys[1].Key # keys[2].Key
    /\ keys[1].CustomerID = keys[2].CustomerID
    /\ keys[1].ProductID = keys[2].ProductID

\* The event of the call names no Product of the table tbl.
MatchesNoProduct(tbl, productIDStr) ==
    ~Atoi(productIDStr).ok \/ Atoi(productIDStr).n \notin DOMAIN tbl

\* C18 (swallow policy): a call whose email is empty, whose product
\* identifier is empty or whose product identifier matches no Product returns
\* nil, creates no Customer and no LicenseKey and sends no notification; and
\* a call returns nil without issuing in these cases only.
C18_SwallowPolicy ==
    [][Provisioned =>
          LET swallow == \/ plast'.email = <<>>
                         \/ plast'.product = <<>>
                         \/ MatchesNoProduct(products, plast'.product)
          IN  /\ swallow => /\ plast'.result = "ignored"
                            /\ customers' = customers
                            /\ keys' = keys
                            /\ plast'.sent = "none"
              /\ plast'.result = "ignored" => swallow]_vars

\* C19 (issuance): a call that issues for Product P and email e adds exactly
\* one license key row, with productID = P.id, customerID = the Customer row
\* of e, status active, currentActivations 0, maxActivations = P's default
\* usage limit and expiresAt = the time of issue plus P's default expiration
\* days.
C19_Issuance ==
    [][(Provisioned /\ plast'.result = "issued")
          => LET P == Atoi(plast'.product).n
                 lk == keys'[plast'.key]
             IN  /\ DOMAIN keys' = DOMAIN keys \cup {plast'.key}
                 /\ plast'.key \notin DOMAIN keys
                 /\ lk.ProductID = P
                 /\ lk.CustomerID \in EmailRows(customers', plast'.email)
                 /\ lk.Status = "active"
                 /\ lk.CurrentActivations = 0
                 /\ lk.MaxActivations = products[P].DefaultUsageLimit
                 /\ lk.ExpiresAt = now + products[P].DefaultExpirationDays]_vars

\* C20 (best-effort notification): the notification is attempted only in a
\* call that has created its license key; when it fails, also for want of an
\* active EmailSettings row, the call still returns nil and the Customer and
\* LicenseKey rows it created are in the tables.
C20_BestEffortNotification ==
    [][Provisioned =>
          /\ plast'.sent # "none" =>
                 plast'.key \in DOMAIN keys' \ DOMAIN keys
          /\ plast'.sent = "failed" =>
                 /\ plast'.result = "issued"
                 /\ plast'.customer \in EmailRows(customers', plast'.email)
                 /\ keys'[plast'.key].CustomerID = plast'.customer
                 /\ keys'[plast'.key].Status = "active"]_vars

\* A key issued while no EmailSettings row is active.
C20_Witness ==
    /\ ActiveRows = {}
    /\ plast.sent = "failed"
    /\ plast.result = "issued"
    /\ plast.key \in DOMAIN keys

\* C25: UsageRemaining answers -1 when MaxActivations is 0 and otherwise the
\* larger of MaxActivations - CurrentActivations and 0, for every row with
\* non-negative counters, CurrentActivations above MaxActivations included;
\* the call changes neither the row nor the clock.
C25_UsageRemaining ==
    /\ [](\A k \in DOMAIN keys :
            (/\ last.op = "UsageRemaining" /\ last.id = k
             /\ keys[k].MaxActivations >= 0 /\ keys[k].CurrentActivations >= 0)
               => last.value =
                     IF keys[k].MaxActivations = 0 THEN 0 - 1
                     ELSE IF keys[k].MaxActivations > keys[k].CurrentActivations
                     THEN keys[k].MaxActivations - keys[k].CurrentActivations
                     ELSE 0)
    /\ [][last'.op = "UsageRemaining" => (keys' = keys /\ now' = now)]_vars

\* More activations stored than the ceiling allows: the answer is 0.
C25_Witness ==
    /\ last.op = "UsageRemaining"
    /\ keys[1].MaxActivations > 0
    /\ keys[1].CurrentActivations > keys[1].MaxActivations
    /\ last.value = 0

\* C30 (counter invariant): for a row issued with MaxActivations = N > 0 and
\* never edited, 0 <= CurrentActivations <= N in every state, no step of
\* IncrementUsage, Revoke or Reactivate lowers CurrentActivations, and once
\* the count has reached N no IncrementUsage succeeds, also after the row
\* was revoked and reactivated.
C30_CounterInvariant ==
    /\ [](\A k \in DOMAIN keys :
            keys[k].MaxActivations > 0 =>
               /\ 0 <= keys[k].CurrentActivations
               /\ keys[k].CurrentActivations <= keys[k].MaxActivations)
    /\ [][\A k \in DOMAIN keys :
             keys[k].MaxActivations > 0 =>
                /\ keys'[k].MaxActivations = keys[k].MaxActivations
                /\ keys'[k].CurrentActivations >= keys[k].CurrentActivations
                /\ keys[k].CurrentActivations = keys[k].MaxActivations
                      => ~IncrementSucceeded(last', k)]_vars

\* An exhausted row, revoked and reactivated: active again, its count still
\* at the ceiling, and IncrementUsage refused.
C30_Witness ==
    /\ 1 \in DOMAIN keys
    /\ keys[1].Status = "active"
    /\ keys[1].MaxActivations = 2
    /\ keys[1].CurrentActivations = 2
    /\ last = Call("IncrementUsage", 1, "invalid")

\* The characters of email before its first "@" (the whole of it when it has
\* none).
LocalPart(email) ==
    IF \E i \in 1..Len(email) : email[i] = "@"
    THEN SubSeq(email, 1,
                (CHOOSE i \in 1..Len(email) :
                    email[i] = "@" /\ \A j \in 1..(i - 1) : email[j] # "@") - 1)
    ELSE email

\* C26 (name from email): no provisioning call crashes, and a Customer row a
\* call creates carries the display name the event supplied or, when that
\* was empty, the local part of the email.
C26_NameFromEmail ==
    [][Provisioned =>
          /\ plast'.result # "panic"
          /\ Len(customers') > Len(customers) =>
                LET c == customers'[Len(customers')]
                IN  \/ c.Name \in EventNames \ {<<>>}
                    \/ c.Name = LocalPart(c.Email)]_vars

\* C24 (money path through the gateway): every customer insert and license
\* key insert of provisioning that meets a contention error has been retried
\* until the budget of maxRetries + 1 attempts was spent before the error
\* reaches the caller.
C24_MoneyPathRetried ==
    \A i \in 1..Len(wlog) :
        (wlog[i].stmt \in {"customers.insert", "license_keys.insert"}
            /\ isLockError(wlog[i].err))
           => wlog[i].attempts = maxRetries + 1

\* C27: for a key with MaxActivations = N > 0, under any interleaving of
\* concurrent verification requests that ask for an increment, the number of
\* requests answered with success never exceeds N, and once no request is in
\* flight the stored CurrentActivations equals that number.
C27_AtomicActivation ==
    \A k \in DOMAIN keys :
        keys[k].MaxActivations > 0 =>
            /\ succ[k] <= keys[k].MaxActivations
            /\ AllIdle => keys[k].CurrentActivations = succ[k]

\* C28: when two provisioning calls for the same email both look the email
\* up before either has inserted it, both resolve to the same single Customer
\* row, and neither fails because the other inserted first: each goes on to
\* issue its license key.
C28_ConcurrentFindOrCreate ==
    \A p \in Procs, q \in Procs :
        (/\ p # q
         /\ procs[p].pc = "done" /\ procs[q].pc = "done"
         /\ procs[p].missed /\ procs[q].missed
         /\ procs[p].email = procs[q].email
         /\ procs[p].name # <<>> /\ procs[q].name # <<>>)
        => /\ procs[p].customer # 0
           /\ procs[p].customer = procs[q].customer
           /\ Cardinality(EmailRows(customers, procs[p].email)) = 1
           /\ procs[p].key # 0 /\ procs[q].key # 0

\* C22: a verification request for (product_id, license_key) is answered
\* not-found and changes nothing stored whenever no license_keys row has
\* both that product and that token: unknown product, unknown token, or a
\* token issued for another product.  The increment is applied only when a
\* matching row exists, is valid for use, and the increment was requested.
C22_VerifyByProductAndKey ==
    [][ last'.op = "VerifyRequest" =>
          LET productID == Atoi(last'.product)
              matching == {k \in DOMAIN keys :
                              /\ productID.ok
                              /\ keys[k].ProductID = productID.n
                              /\ keys[k].Key = last'.key}
          IN  /\ matching = {} =>
                    /\ last'.result = "404"
                    /\ UNCHANGED <<keys, succ, products, customers>>
              /\ keys' # keys =>
                    /\ last'.increment # "false"
                    /\ \E k \in matching :
                          /\ IsValidForUse(keys[k], now)
                          /\ keys' = [keys EXCEPT ![k] = IncrementUsage(keys[k], now).lk]
      ]_vars

\* A valid token of one product was presented for another stored product
\* and refused; and a request that found its row has counted a use.
C22_Witness ==
    /\ last.op = "VerifyRequest" /\ last.result = "404"
    /\ Atoi(last.product).ok /\ Atoi(last.product).n \in DOMAIN products
    /\ \E k \in DOMAIN keys :
          /\ keys[k].Key = last.key
          /\ keys[k].ProductID # Atoi(last.product).n
          /\ IsValidForUse(keys[k], now)
          /\ last.increment # "false"
    /\ \E k \in DOMAIN keys : succ[k] > 0

\* C21: in every reachable state no two license_keys rows hold the same
\* token, whatever tokens the generator draws and however webhook
\* provisioning and admin creation (with or without a supplied key)
\* interleave; an issuance whose token is already stored creates no row.
C21_KeyUniqueness ==
    /\ [](\A i \in DOMAIN keys, j \in DOMAIN keys : keys[i].Key = keys[j].Key => i = j)
    /\ [][/\ \A k \in DOMAIN keys' \ DOMAIN keys : keys'[k].Key \notin KeyTokens(keys)
          /\ \A k \in DOMAIN keys : keys'[k].Key = keys[k].Key
          /\ (\E i \in DOMAIN wlog' : /\ wlog'[i].stmt = "license_keys.insert"
                                      /\ wlog'[i].err = ErrUnique)
                => keys' = keys]_vars

\* An admin creation supplied the token of a key that provisioning had
\* issued, and was refused by the index.
C21_Witness ==
    /\ last = Call("LicenseKeysCreate", 0, "500")
    /\ wlog = <<Write("license_keys.insert", 1, ErrUnique)>>
    /\ plast.result = "issued"
    /\ plast.key \in DOMAIN keys

\* Some license key belongs to product id.
HasKeys(id) == \E k \in DOMAIN keys : keys[k].ProductID = id

\* The step is a call of ProductsHandler.Delete.
ProductsDeleteStep ==
    /\ last'.op = "ProductsDelete"
    /\ Len(wlog') = 1 /\ wlog'[1].stmt = "products.delete"
    /\ UNCHANGED <<keys, customers, plast>>
    /\ Live(products') \subseteq Live(products)

C29_ReferentialIntegrity ==
    \A k \in DOMAIN keys :
        /\ keys[k].ProductID \in Live(products)
        /\ keys[k].CustomerID \in Live(customers)

\* A provisioned key was re-pointed to another customer by an edit, and the
\* customer it was issued to has been deleted since.
C29_Witness ==
    /\ plast.key \in DOMAIN keys
    /\ keys[plast.key].CustomerID # plast.customer
    /\ customers[plast.customer] = Gone

====
